---- MODULE Spec2Model ----
(***************************************************************************)
(* The scan orchestrator of medi-lens: the useScanner hook               *)
(* (src/src/hooks/use-scanner.ts, second revision, lines 92-295), the      *)
(* page that renders it (src/src/app/page.tsx, lines 1-81), the upload     *)
(* handler of the home screen (src/src/components/medilens/home-screen.tsx)*)
(* and the response reconciliation of forensicAnalysisFlow                 *)
(* (src/src/ai/flows/forensic-analysis-flow.ts).                           *)
(*                                                                         *)
(* Time is explicit.  One time unit is the shortest timer of the program   *)
(* (the 500 ms dwell of the first step); every other timer is a multiple.  *)
(* A timer fires when its delay has elapsed; the remote call settles at    *)
(* any moment within MaxLatency units.                                     *)
(***************************************************************************)
EXTENDS Integers, Sequences, FiniteSets

VARIABLES
    state,          \* useState<ScannerState>          use-scanner.ts:108
    image,          \* useState<string | null>         use-scanner.ts:109
    analysisSteps,  \* statuses of the displayed steps use-scanner.ts:110
    medicineInfo,   \* useState<MedicineInfo | null>   use-scanner.ts:111
    forensicResult, \* useState<ForensicAnalysisResult | null>    :112
    error,          \* useState<string | null>         use-scanner.ts:113
    imageQueue,     \* useState<string[]>              use-scanner.ts:114
    cooldown,       \* useState(0)                     use-scanner.ts:115
    cdTimer,        \* the pending setTimeout of the countdown effect: time
                    \* elapsed since it was set, or NoTimer
    endTime,        \* localStorage[COOLDOWN_STORAGE_KEY]: time left until the
                    \* persisted deadline (0 once passed), or NoEntry
    runs,           \* the _runAnalysis invocations that have not returned
    storageOK,      \* whether this browser grants access to localStorage
    reads,          \* file selections of the home screen still being read
    refused,        \* the guarded handler the last step called in vain
                    \* (cooldown > 0), or None: the side channel of the guard
    batch,          \* history: the batch under test (SpecBatch), or << >>
    served,         \* history: how many images of batch have become current
    recovering,     \* the hook is mounted and its recovery effect has not
                    \* run yet                      use-scanner.ts:118-131
    clock,          \* the server's Date: new Date().getTime()
    answer,         \* the last call of forensicAnalysisFlow on the server:
                    \* what JSON.parse gave and what the flow returned
    issued          \* the scanIds the flow has returned so far

hook == <<state, image, analysisSteps, medicineInfo, forensicResult, error,
          imageQueue>>
\* the server side of forensicAnalysisFlow
server == <<clock, answer, issued>>
\* what the handlers and callbacks of the page never write
history == <<batch, served, recovering, server>>
vars == <<state, image, analysisSteps, medicineInfo, forensicResult, error,
          imageQueue, cooldown, cdTimer, endTime, storageOK, runs, reads,
          refused, batch, served, recovering, clock, answer, issued>>

-----------------------------------------------------------------------------
(* Bounds of the model *)

\* concurrent _runAnalysis invocations the model keeps track of
MaxRuns == 2
\* images in one uploaded batch
MaxBatch == 2
\* file selections being read at the same time
MaxReads == 1
\* time units within which the remote call settles
MaxLatency == 1
\* calls of forensicAnalysisFlow the server's record keeps
MaxFlows == 2
\* readings the server's clock goes through
MaxClock == 1

-----------------------------------------------------------------------------
(* Program constants *)

\* an absent string (null or undefined)
None == "none"
\* an absent object: objects are held as one-element sequences
Null == << >>
Some(v) == <<v>>
\* an absent score
NoScore == -1
\* no timeout pending
NoTimer == -1
\* localStorage holds no entry under COOLDOWN_STORAGE_KEY
NoEntry == -1

initialAnalysisSteps ==
    << [title |-> "Queueing image for analysis...", status |-> "pending", duration |-> 500],
       [title |-> "Performing unified AI analysis...", status |-> "pending", duration |-> 8000],
       [title |-> "Finalizing report...", status |-> "pending", duration |-> 1000] >>

NSteps == Len(initialAnalysisSteps)

COOLDOWN_SECONDS == 60

\* the delay of the countdown effect's setTimeout, in ms
TICK_MS == 1000

\* ms per time unit: the shortest timer of the program
Unit == initialAnalysisSteps[1].duration

\* a delay in time units
Units(ms) == ms \div Unit

DefaultErrorMessage == "An unexpected error occurred during analysis."

Images == {"A", "B"}

\* the non-empty batches a file selection can hold
Batches == UNION {[1..n -> Images] : n \in 1..MaxBatch}

\* JavaScript truthiness of an optional string
Truthy(v) == v \notin {None, ""}

\* JavaScript truthiness of an optional number
TruthyNum(n) == n \notin {NoScore, 0}

\* Math.ceil(a / b) for a >= 0, b > 0
CeilDiv(a, b) == (a + b - 1) \div b

-----------------------------------------------------------------------------
(* The remote call: forensicAnalysisFlow *)

\* what JSON.parse yields from the model's answer: the fields the reconciler
\* and the hook branch on, each present or absent
Responses ==
    [error : {None, "x"}, score : {NoScore, 0, 70}, primaryUses : {"u"}]
        \cup {[error |-> None, score |-> 70, primaryUses |-> None]}

\* e.message of a rejection: JSON.parse or the transport throws
Rejections == {"", "net"}

\* forensic-analysis-flow.ts:109-155
forensicAnalysisFlow(parsedJson) ==
    IF Truthy(parsedJson.error) /\ ~TruthyNum(parsedJson.score)
    THEN [score |-> 0, error |-> parsedJson.error, primaryUses |-> None,
          reason |-> "Analysis failed."]
    ELSE [score |-> IF parsedJson.score = NoScore THEN 0 ELSE parsedJson.score,
          error |-> parsedJson.error,
          primaryUses |-> parsedJson.primaryUses,
          reason |-> "AI response missing data."]

\* a value the response may carry or leave out (?? takes null and undefined
\* alike): Null, or Some(v)
Optional(values) == {Null} \cup {Some(v) : v \in values}

\* v ?? d
Coalesce(v, d) == IF v = Null THEN d ELSE v[1]

\* a sub-result of coreResults; a field the object does not have is None
\* (the source sub-result has no status and no evidence_quote)
CoreResult(match, status, reason, evidence_quote) ==
    [match |-> match, status |-> status, reason |-> reason,
     evidence_quote |-> evidence_quote]

\* the sub-results a response carries
GivenResult == CoreResult(TRUE, "match", "r", "q")
GivenSource == CoreResult(TRUE, None, "r", None)

\* forensic-analysis-flow.ts:118-121, 144-147
Omission(reason) == CoreResult(FALSE, "omission", reason, "")

\* forensic-analysis-flow.ts:122, 148
SourceOmission(reason) == CoreResult(FALSE, None, reason, None)

\* new Date().toISOString() and `scan_${new Date().getTime()}` at reading now;
\* a value echoed by the response is a one-element sequence
Fresh(now) == <<"at", now>>
Stale == <<"stale">>

\* every shape of what JSON.parse yields, over the fields forensicAnalysisFlow
\* reads or overwrites   forensic-analysis-flow.ts:107
AnyResponse ==
    [error : {None, "x"},
     score : {NoScore, 0, 70},
     primaryUses : {"u"},
     verdict : {None, "Authentic"},
     imprint : {None, "L484"},
     sources : Optional({<<"s">>}),
     detailed : Optional({<<"d">>}),
     coreResults : Optional([imprint : Optional({GivenResult}),
                             color : Optional({GivenResult}),
                             shape : Optional({GivenResult}),
                             generic : Optional({GivenResult}),
                             source : Optional({GivenSource})]),
     timestamp : {Null, Stale},
     scanId : {Null, Stale}]

\* the top-level fields of a response are all there, or all left out
PlainResponse(r) ==
    \/ /\ r.verdict = None /\ r.imprint = None /\ r.sources = Null
       /\ r.detailed = Null /\ r.timestamp = Null
    \/ /\ r.verdict # None /\ r.imprint # None /\ r.sources # Null
       /\ r.detailed # Null /\ r.timestamp # Null

\* coreResults is left out, or has every sub-result
PlainCore(r) ==
    \/ r.coreResults = Null
    \/ r.coreResults = Some([imprint |-> Some(GivenResult),
                             color |-> Some(GivenResult),
                             shape |-> Some(GivenResult),
                             generic |-> Some(GivenResult),
                             source |-> Some(GivenSource)])

\* the responses the flow is called with: every combination of top-level
\* fields, and every combination of sub-results; a response echoes timestamp
\* and scanId together or not at all
FlowResponses ==
    {r \in AnyResponse :
        /\ (r.timestamp = Null) <=> (r.scanId = Null)
        /\ PlainResponse(r) \/ PlainCore(r)}

\* parsedJson.coreResults?.[key]
CorePart(parsedJson, key) ==
    IF parsedJson.coreResults = Null THEN Null
    ELSE parsedJson.coreResults[1][key]

\* the hard failure   forensic-analysis-flow.ts:112-128
hardFailure(parsedJson, now) ==
    [score |-> 0,
     verdict |-> "Inconclusive",
     imprint |-> "",
     sources |-> << >>,
     coreResults |-> [imprint |-> Omission("Analysis failed."),
                      color |-> Omission("Analysis failed."),
                      shape |-> Omission("Analysis failed."),
                      generic |-> Omission("Analysis failed."),
                      source |-> SourceOmission("Analysis failed.")],
     detailed |-> << >>,
     timestamp |-> Fresh(now),
     scanId |-> Fresh(now),
     error |-> parsedJson.error,
     primaryUses |-> None]

\* a flow that answers every response as a failure
finalResult_AsFailure(parsedJson, now) == hardFailure(parsedJson, now)

\* forensic-analysis-flow.ts:132-153
finalResult(parsedJson, now) ==
    [primaryUses |-> parsedJson.primaryUses,
     error |-> parsedJson.error,
     score |-> IF parsedJson.score = NoScore THEN 0 ELSE parsedJson.score,
     verdict |-> IF parsedJson.verdict = None THEN "Inconclusive"
                 ELSE parsedJson.verdict,
     imprint |-> IF parsedJson.imprint = None THEN "Not detected"
                 ELSE parsedJson.imprint,
     sources |-> Coalesce(parsedJson.sources, << >>),
     coreResults |->
        [imprint |-> Coalesce(CorePart(parsedJson, "imprint"),
                              Omission("AI response missing data.")),
         color |-> Coalesce(CorePart(parsedJson, "color"),
                            Omission("AI response missing data.")),
         shape |-> Coalesce(CorePart(parsedJson, "shape"),
                            Omission("AI response missing data.")),
         generic |-> Coalesce(CorePart(parsedJson, "generic"),
                              Omission("AI response missing data.")),
         source |-> Coalesce(CorePart(parsedJson, "source"),
                             SourceOmission("AI response missing data."))],
     detailed |-> Coalesce(parsedJson.detailed, << >>),
     timestamp |-> Fresh(now),
     scanId |-> Fresh(now)]

\* the whole return value of forensicAnalysisFlow at clock reading now
\* forensic-analysis-flow.ts:109-155
flowResult(parsedJson, now) ==
    IF Truthy(parsedJson.error) /\ ~TruthyNum(parsedJson.score)
    THEN hardFailure(parsedJson, now)
    ELSE finalResult(parsedJson, now)

-----------------------------------------------------------------------------
(* Steps *)

StatusesOf(steps) == [i \in 1..Len(steps) |-> steps[i].status]

\* initialAnalysisSteps.map(s => ({...s, status: 'pending'}))
PendingSteps == [i \in 1..NSteps |-> "pending"]

CompleteSteps == [i \in 1..NSteps |-> "complete"]

\* the duration of step index (0-based, as in the code), in time units
Duration(index) == Units(initialAnalysisSteps[index + 1].duration)

\* mutant: runStep marks the step in-progress and leaves the earlier ones
runStep_NoComplete(currentSteps, index) ==
    IF index < Len(currentSteps)
    THEN [i \in 1..Len(currentSteps) |->
            IF i - 1 = index THEN "in-progress" ELSE currentSteps[i]]
    ELSE currentSteps

\* runStep's update of currentSteps, index 0-based   use-scanner.ts:162-169
runStep(currentSteps, index) ==
    IF index < Len(currentSteps)
    THEN [i \in 1..Len(currentSteps) |->
            IF i - 1 < index THEN "complete"
            ELSE IF i - 1 = index THEN "in-progress"
            ELSE currentSteps[i]]
    ELSE currentSteps

-----------------------------------------------------------------------------
(* Runs of _runAnalysis *)

Slots == 1..MaxRuns

FreeRun == [pc |-> "free", img |-> None, steps |-> PendingSteps,
            elapsed |-> 0, raw |-> Null]

Active == {s \in Slots : runs[s].pc # "free"}

HasFree == Active # Slots

FreeSlot == CHOOSE s \in Slots : runs[s].pc = "free" /\
                \A r \in Slots : runs[r].pc = "free" => s <= r

TypeOK ==
    /\ state \in {"idle", "scanning", "analyzing", "results"}
    /\ image \in Images \cup {None}
    /\ analysisSteps \in [1..NSteps -> {"pending", "in-progress", "complete"}]
    /\ error \in {None, "x", "net", DefaultErrorMessage}
    /\ imageQueue \in Seq(Images) /\ Len(imageQueue) < MaxBatch
    /\ cooldown \in 0..COOLDOWN_SECONDS
    /\ cdTimer \in {NoTimer} \cup 0..Units(TICK_MS)
    /\ endTime \in {NoEntry} \cup 0..Units(COOLDOWN_SECONDS * 1000)
    /\ \A s \in Slots : runs[s].pc \in {"free", "step0", "call", "step2"}
    /\ Len(reads) <= MaxReads
    /\ recovering \in BOOLEAN
    /\ clock \in 0..MaxClock
    /\ Len(issued) <= MaxFlows

Init ==
    /\ state = "idle"
    /\ image = None
    /\ analysisSteps = StatusesOf(initialAnalysisSteps)
    /\ medicineInfo = Null
    /\ forensicResult = Null
    /\ error = None
    /\ imageQueue = << >>
    /\ cooldown = 0
    /\ cdTimer = NoTimer
    /\ endTime = NoEntry
    /\ storageOK = TRUE
    /\ runs = [s \in Slots |-> FreeRun]
    /\ reads = << >>
    /\ refused = None
    /\ batch = << >>
    /\ served = 0
    /\ recovering = FALSE
    /\ clock = 0
    /\ answer = Null
    /\ issued = << >>

-----------------------------------------------------------------------------
(* CooldownGuard *)

\* the countdown effect after a render that set the counter to c
\* use-scanner.ts:134-140: a change of cooldown clears the pending timeout and,
\* if the new value is positive, sets a new one
CountdownEffect(c) ==
    IF c = cooldown THEN cdTimer
    ELSE IF c > 0 THEN 0
    ELSE NoTimer

\* mutant: the catch block of startCooldown does not set the counter
startCooldown_NoFallback ==
    /\ endTime' = IF storageOK THEN Units(COOLDOWN_SECONDS * 1000) ELSE endTime
    /\ cooldown' = IF storageOK THEN COOLDOWN_SECONDS ELSE cooldown
    /\ cdTimer' = IF storageOK THEN CountdownEffect(COOLDOWN_SECONDS)
                  ELSE cdTimer

\* use-scanner.ts:142-151; setItem throws when localStorage is denied
startCooldown ==
    /\ endTime' = IF storageOK THEN Units(COOLDOWN_SECONDS * 1000) ELSE endTime
    /\ cooldown' = COOLDOWN_SECONDS
    /\ cdTimer' = CountdownEffect(COOLDOWN_SECONDS)

\* mutant: the countdown keeps a timeout pending at 0
Tick_NoStop ==
    /\ cdTimer = Units(TICK_MS)
    /\ cooldown' = cooldown - 1
    /\ cdTimer' = 0
    /\ refused' = None
    /\ UNCHANGED history
    /\ UNCHANGED <<hook, endTime, storageOK, runs, reads>>

\* mutant: the countdown sets no further timeout after the first
Tick_Once ==
    /\ cdTimer = Units(TICK_MS)
    /\ cooldown' = cooldown - 1
    /\ cdTimer' = NoTimer
    /\ refused' = None
    /\ UNCHANGED history
    /\ UNCHANGED <<hook, endTime, storageOK, runs, reads>>

\* the timeout of the countdown effect fires   use-scanner.ts:136-138
Tick ==
    /\ cdTimer = Units(TICK_MS)
    /\ cooldown' = cooldown - 1
    /\ cdTimer' = IF cooldown - 1 > 0 THEN 0 ELSE NoTimer
    /\ refused' = None
    /\ UNCHANGED history
    /\ UNCHANGED <<hook, endTime, storageOK, runs, reads>>

\* mutant: the recovery rounds the remaining time down
Recovered_Floor ==
    IF storageOK /\ endTime # NoEntry /\ (endTime * Unit) \div 1000 > 0
    THEN (endTime * Unit) \div 1000
    ELSE 0

\* the value the recovery effect gives the counter   use-scanner.ts:118-131
\* getItem throws when localStorage is denied
Recovered ==
    IF storageOK /\ endTime # NoEntry /\ CeilDiv(endTime * Unit, 1000) > 0
    THEN CeilDiv(endTime * Unit, 1000)
    ELSE 0

\* the page is loaded again: every useState starts from its initial value,
\* pending callbacks are gone, and the recovery effect runs
Reload ==
    /\ state' = "idle"
    /\ image' = None
    /\ analysisSteps' = StatusesOf(initialAnalysisSteps)
    /\ medicineInfo' = Null
    /\ forensicResult' = Null
    /\ error' = None
    /\ imageQueue' = << >>
    /\ cooldown' = Recovered
    /\ cdTimer' = IF Recovered > 0 THEN 0 ELSE NoTimer
    /\ runs' = [s \in Slots |-> FreeRun]
    /\ reads' = << >>
    /\ refused' = None
    /\ UNCHANGED history
    /\ UNCHANGED <<endTime, storageOK>>

-----------------------------------------------------------------------------
(* The hook's handlers *)

\* _runAnalysis up to its first await   use-scanner.ts:153-177
\* (setAnalysisSteps of runStep(0) is the last write of the batch)
runAnalysis(imageDataUrl) ==
    /\ HasFree
    /\ medicineInfo' = Null
    /\ forensicResult' = Null
    /\ error' = None
    /\ state' = "analyzing"
    /\ analysisSteps' = runStep(PendingSteps, 0)
    /\ runs' = [runs EXCEPT ![FreeSlot] =
                  [pc |-> "step0", img |-> imageDataUrl,
                   steps |-> runStep(PendingSteps, 0), elapsed |-> 0,
                   raw |-> Null]]

\* the reset block shared by _startAnalysisWithQueue([]), analyzeNext and
\* restart   use-scanner.ts:217-222, 261-266, 272-277
ResetToIdle ==
    /\ state' = "idle"
    /\ image' = None
    /\ medicineInfo' = Null
    /\ forensicResult' = Null
    /\ error' = None
    /\ imageQueue' = << >>

\* mutant: the queue keeps the image that became current (no slice(1))
startAnalysisWithQueue_NoSlice(imageDataUrls) ==
    IF Len(imageDataUrls) = 0
    THEN ResetToIdle /\ UNCHANGED <<analysisSteps, runs>>
    ELSE /\ image' = Head(imageDataUrls)
         /\ imageQueue' = imageDataUrls
         /\ runAnalysis(Head(imageDataUrls))

\* use-scanner.ts:215-233
startAnalysisWithQueue(imageDataUrls) ==
    IF Len(imageDataUrls) = 0
    THEN ResetToIdle /\ UNCHANGED <<analysisSteps, runs>>
    ELSE /\ image' = Head(imageDataUrls)
         /\ imageQueue' = Tail(imageDataUrls)
         /\ runAnalysis(Head(imageDataUrls))

\* use-scanner.ts:235-244
startScan ==
    IF cooldown > 0
    THEN UNCHANGED <<hook, runs>>
    ELSE /\ state' = "scanning"
         /\ image' = None
         /\ medicineInfo' = Null
         /\ forensicResult' = Null
         /\ error' = None
         /\ imageQueue' = << >>
         /\ analysisSteps' = PendingSteps
         /\ UNCHANGED runs

\* use-scanner.ts:246-248
handleImageCapture(imageDataUrl) ==
    startAnalysisWithQueue(<<imageDataUrl>>)

\* use-scanner.ts:250-254
handleMultipleImages(imageDataUrls) ==
    IF Len(imageDataUrls) > 0
    THEN startAnalysisWithQueue(imageDataUrls)
    ELSE UNCHANGED <<hook, runs>>

\* mutant: analyzeNext does not consult the queue
analyzeNext_IgnoresQueue ==
    IF cooldown > 0
    THEN UNCHANGED <<hook, runs>>
    ELSE ResetToIdle /\ UNCHANGED <<analysisSteps, runs>>

\* use-scanner.ts:256-268
analyzeNext ==
    IF cooldown > 0
    THEN UNCHANGED <<hook, runs>>
    ELSE IF Len(imageQueue) > 0
         THEN startAnalysisWithQueue(imageQueue)
         ELSE ResetToIdle /\ UNCHANGED <<analysisSteps, runs>>

\* mutant: restart without its cooldown guard (the hook's first revision)
restart_Unguarded ==
    ResetToIdle /\ UNCHANGED <<analysisSteps, runs>>

\* use-scanner.ts:270-278
restart ==
    IF cooldown > 0
    THEN UNCHANGED <<hook, runs>>
    ELSE ResetToIdle /\ UNCHANGED <<analysisSteps, runs>>

-----------------------------------------------------------------------------
(* The continuations of _runAnalysis *)

\* the first step's timeout fires: runStep(1) awaits nothing, and the remote
\* call is dispatched   use-scanner.ts:177-181
StepTimer(s) ==
    /\ runs[s].pc = "step0"
    /\ runs[s].elapsed >= Duration(0)
    /\ analysisSteps' = runStep(runs[s].steps, 1)
    /\ runs' = [runs EXCEPT ![s].pc = "call",
                            ![s].steps = runStep(runs[s].steps, 1),
                            ![s].elapsed = 0]
    /\ refused' = None
    /\ UNCHANGED history
    /\ UNCHANGED <<state, image, medicineInfo, forensicResult, error,
                   imageQueue, cooldown, cdTimer, endTime, storageOK, reads>>

\* the classification of the resolved result   use-scanner.ts:184-197
Classify(unifiedResult) ==
    IF Truthy(unifiedResult.error) /\ ~TruthyNum(unifiedResult.score)
    THEN /\ error' = unifiedResult.error
         /\ medicineInfo' = Some([primaryUses |-> None,
                                  error |-> unifiedResult.error])
         /\ UNCHANGED forensicResult
    ELSE /\ medicineInfo' = Some([primaryUses |-> unifiedResult.primaryUses,
                                  error |-> unifiedResult.error])
         /\ forensicResult' = Some(unifiedResult)
         /\ UNCHANGED error

\* the remote call resolves; the last step is entered   use-scanner.ts:181-199
Resolve(s, parsedJson) ==
    /\ runs[s].pc = "call"
    /\ Classify(forensicAnalysisFlow(parsedJson))
    /\ analysisSteps' = runStep(runs[s].steps, 2)
    /\ runs' = [runs EXCEPT ![s].pc = "step2",
                            ![s].steps = runStep(runs[s].steps, 2),
                            ![s].elapsed = 0,
                            ![s].raw = Some(parsedJson)]
    /\ refused' = None
    /\ UNCHANGED history
    /\ UNCHANGED <<state, image, imageQueue, cooldown, cdTimer, endTime,
                   storageOK, reads>>

\* mutant: runStep(2) called without its duration, as runStep(1) is
Finalize_NoDwell(s) ==
    /\ runs[s].pc = "step2"
    /\ analysisSteps' = CompleteSteps
    /\ state' = "results"
    /\ startCooldown
    /\ runs' = [runs EXCEPT ![s] = FreeRun]
    /\ refused' = None
    /\ UNCHANGED history
    /\ UNCHANGED <<image, medicineInfo, forensicResult, error, imageQueue,
                   storageOK, reads>>

\* the last step's timeout fires   use-scanner.ts:199-205
Finalize(s) ==
    /\ runs[s].pc = "step2"
    /\ runs[s].elapsed >= Duration(2)
    /\ analysisSteps' = CompleteSteps
    /\ state' = "results"
    /\ startCooldown
    /\ runs' = [runs EXCEPT ![s] = FreeRun]
    /\ refused' = None
    /\ UNCHANGED history
    /\ UNCHANGED <<image, medicineInfo, forensicResult, error, imageQueue,
                   storageOK, reads>>

\* mutant: the catch block does not arm the cooldown
Reject_NoArm(s, message) ==
    /\ runs[s].pc = "call"
    /\ error' = IF Truthy(message) THEN message ELSE DefaultErrorMessage
    /\ state' = "results"
    /\ runs' = [runs EXCEPT ![s] = FreeRun]
    /\ refused' = None
    /\ UNCHANGED history
    /\ UNCHANGED <<image, analysisSteps, medicineInfo, forensicResult,
                   imageQueue, storageOK, reads, cooldown, cdTimer, endTime>>

\* mutant: the catch block records the error and leaves the state alone
Reject_NoResults(s, message) ==
    /\ runs[s].pc = "call"
    /\ error' = IF Truthy(message) THEN message ELSE DefaultErrorMessage
    /\ startCooldown
    /\ runs' = [runs EXCEPT ![s] = FreeRun]
    /\ refused' = None
    /\ UNCHANGED history
    /\ UNCHANGED <<state, image, analysisSteps, medicineInfo, forensicResult,
                   imageQueue, storageOK, reads>>

\* the remote call rejects: the catch block   use-scanner.ts:207-212
Reject(s, message) ==
    /\ runs[s].pc = "call"
    /\ error' = IF Truthy(message) THEN message ELSE DefaultErrorMessage
    /\ state' = "results"
    /\ startCooldown
    /\ runs' = [runs EXCEPT ![s] = FreeRun]
    /\ refused' = None
    /\ UNCHANGED history
    /\ UNCHANGED <<image, analysisSteps, medicineInfo, forensicResult,
                   imageQueue, storageOK, reads>>

-----------------------------------------------------------------------------
(* The page: which handler the rendered screen offers   page.tsx:18-65 *)

\* page.tsx:19
ErrorScreen == Truthy(error) /\ state # "results"

\* page.tsx:61-63: the idle and default case of the switch
HomeShown == ~ErrorScreen /\ state \notin {"scanning", "analyzing", "results"}

\* page.tsx:29-30
ScannerShown == ~ErrorScreen /\ state = "scanning"

\* page.tsx:33
ResultsShown == ~ErrorScreen /\ state = "results"

\* the cooldown prop of HomeScreen: page.tsx:63 passes onScan and onUpload only
HomeCooldownProp == None

\* home-screen.tsx:45, undefined > 0 being false
cooldownActive == HomeCooldownProp # None /\ cooldown > 0

\* "Scan Medicine"   page.tsx:63, home-screen.tsx:115
ClickScan ==
    /\ HomeShown /\ ~cooldownActive
    /\ startScan
    /\ refused' = IF cooldown > 0 THEN "startScan" ELSE None
    /\ UNCHANGED history
    /\ UNCHANGED <<cooldown, cdTimer, endTime, storageOK, reads>>

\* "Try Again" of the error screen   page.tsx:24
ClickTryAgain ==
    /\ ErrorScreen
    /\ restart
    /\ refused' = IF cooldown > 0 THEN "restart" ELSE None
    /\ UNCHANGED history
    /\ UNCHANGED <<cooldown, cdTimer, endTime, storageOK, reads>>

\* the scanner's onCancel   page.tsx:30
ScannerCancel ==
    /\ ScannerShown
    /\ restart
    /\ refused' = IF cooldown > 0 THEN "restart" ELSE None
    /\ UNCHANGED history
    /\ UNCHANGED <<cooldown, cdTimer, endTime, storageOK, reads>>

\* the scanner's handleImageCapture   page.tsx:30
ScannerCapture(img) ==
    /\ ScannerShown
    /\ handleImageCapture(img)
    /\ refused' = None
    /\ UNCHANGED history
    /\ UNCHANGED <<cooldown, cdTimer, endTime, storageOK, reads>>

\* onRestart of the results screen   page.tsx:37-51
ResultsRestart ==
    /\ ResultsShown
    /\ medicineInfo # Null \/ forensicResult # Null
    /\ restart
    /\ refused' = IF cooldown > 0 THEN "restart" ELSE None
    /\ UNCHANGED history
    /\ UNCHANGED <<cooldown, cdTimer, endTime, storageOK, reads>>

\* onAnalyzeNext of the results screen   page.tsx:37-44
ResultsAnalyzeNext ==
    /\ ResultsShown
    /\ medicineInfo # Null
    /\ analyzeNext
    /\ refused' = IF cooldown > 0 THEN "analyzeNext" ELSE None
    /\ UNCHANGED history
    /\ UNCHANGED <<cooldown, cdTimer, endTime, storageOK, reads>>

\* "Upload Photo(s)" and a file selection: the files start being read
\* home-screen.tsx:47-68
SelectFiles(files) ==
    /\ HomeShown /\ ~cooldownActive
    /\ Len(reads) < MaxReads
    /\ reads' = Append(reads, files)
    /\ refused' = None
    /\ UNCHANGED history
    /\ UNCHANGED <<hook, cooldown, cdTimer, endTime, storageOK, runs>>

Without(seq, i) == SubSeq(seq, 1, i - 1) \o SubSeq(seq, i + 1, Len(seq))

\* the reads of a selection are done: onUpload(dataUrls)
\* home-screen.tsx:68-69, page.tsx:63
FilesRead(i) ==
    /\ i \in 1..Len(reads)
    /\ handleMultipleImages(reads[i])
    /\ reads' = Without(reads, i)
    /\ refused' = None
    /\ UNCHANGED history
    /\ UNCHANGED <<cooldown, cdTimer, endTime, storageOK>>

\* a read fails: a toast, nothing else   home-screen.tsx:70-77
FilesUnreadable(i) ==
    /\ i \in 1..Len(reads)
    /\ reads' = Without(reads, i)
    /\ refused' = None
    /\ UNCHANGED history
    /\ UNCHANGED <<hook, cooldown, cdTimer, endTime, storageOK, runs>>

-----------------------------------------------------------------------------
(* Time *)

\* no timeout is due, no remote call has been out for MaxLatency, and no file
\* is being read (a read takes less than one time unit)
CanAdvance ==
    /\ reads = << >>
    /\ cdTimer # NoTimer => cdTimer < Units(TICK_MS)
    /\ \A s \in Slots :
         /\ runs[s].pc = "step0" => runs[s].elapsed < Duration(0)
         /\ runs[s].pc = "call" => runs[s].elapsed < MaxLatency
         /\ runs[s].pc = "step2" => runs[s].elapsed < Duration(2)

\* one time unit passes
Advance ==
    /\ CanAdvance
    /\ cdTimer' = IF cdTimer = NoTimer THEN NoTimer ELSE cdTimer + 1
    /\ endTime' = IF endTime = NoEntry \/ endTime = 0 THEN endTime ELSE endTime - 1
    /\ runs' = [s \in Slots |->
                  IF runs[s].pc = "free" THEN runs[s]
                  ELSE [runs[s] EXCEPT !.elapsed = @ + 1]]
    /\ refused' = None
    /\ UNCHANGED history
    /\ UNCHANGED <<hook, cooldown, storageOK, reads>>

-----------------------------------------------------------------------------

Next ==
    \/ ClickScan
    \/ ClickTryAgain
    \/ ScannerCancel
    \/ \E img \in Images : ScannerCapture(img)
    \/ ResultsRestart
    \/ ResultsAnalyzeNext
    \/ \E files \in Batches : SelectFiles(files)
    \/ \E i \in 1..MaxReads : FilesRead(i)
    \/ \E i \in 1..MaxReads : FilesUnreadable(i)
    \/ \E s \in Slots : StepTimer(s)
    \/ \E s \in Slots, parsedJson \in Responses : Resolve(s, parsedJson)
    \/ \E s \in Slots : Finalize(s)
    \/ \E s \in Slots, message \in Rejections : Reject(s, message)
    \/ Tick
    \/ Advance
    \/ Reload

\* the page in the browser: every handler the rendered screen offers, the
\* callbacks of the pending timeouts and calls, and reloads
Spec == Init /\ [][Next]_vars

\* the page in a browser that denies localStorage (private browsing): getItem
\* and setItem throw   use-scanner.ts:127-130, 147-150
InitDenied ==
    /\ state = "idle"
    /\ image = None
    /\ analysisSteps = StatusesOf(initialAnalysisSteps)
    /\ medicineInfo = Null
    /\ forensicResult = Null
    /\ error = None
    /\ imageQueue = << >>
    /\ cooldown = 0
    /\ cdTimer = NoTimer
    /\ endTime = NoEntry
    /\ storageOK = FALSE
    /\ runs = [s \in Slots |-> FreeRun]
    /\ reads = << >>
    /\ refused = None
    /\ batch = << >>
    /\ served = 0
    /\ recovering = FALSE
    /\ clock = 0
    /\ answer = Null
    /\ issued = << >>

SpecDenied == InitDenied /\ [][Next]_vars

-----------------------------------------------------------------------------
(* One batch driven through the hook: handleMultipleImages(batch) from idle,
   then analyzeNext whenever the session is in results, with no other call
   (the queue-order test and the end-to-end scenario of the specification) *)

BatchDone == batch = << >> \/ served > Len(batch)

SubmitBatch(imageDataUrls) ==
    /\ state = "idle" /\ Active = {} /\ BatchDone
    /\ handleMultipleImages(imageDataUrls)
    /\ batch' = imageDataUrls
    /\ served' = 1
    /\ refused' = None
    /\ UNCHANGED <<cooldown, cdTimer, endTime, storageOK, reads, recovering,
                   server>>

CallAnalyzeNext ==
    /\ state = "results" /\ ~BatchDone
    /\ analyzeNext
    /\ refused' = IF cooldown > 0 THEN "analyzeNext" ELSE None
    /\ served' = IF cooldown > 0 THEN served ELSE served + 1
    /\ UNCHANGED <<batch, cooldown, cdTimer, endTime, storageOK, reads,
                   recovering, server>>

BatchNext ==
    \/ \E imageDataUrls \in Batches : SubmitBatch(imageDataUrls)
    \/ CallAnalyzeNext
    \/ \E s \in Slots : StepTimer(s)
    \/ \E s \in Slots, parsedJson \in Responses : Resolve(s, parsedJson)
    \/ \E s \in Slots : Finalize(s)
    \/ \E s \in Slots, message \in Rejections : Reject(s, message)
    \/ Tick
    \/ Advance

SpecBatch == Init /\ [][BatchNext]_vars

-----------------------------------------------------------------------------
(* The hook by itself: the functions useScanner returns (use-scanner.ts:
   280-294), called in any order and with any argument, the empty batch
   included, by a caller that waits for a started analysis to return *)

\* no _runAnalysis is running
Quiescent == Active = {}

HookStartScan ==
    /\ Quiescent
    /\ startScan
    /\ refused' = IF cooldown > 0 THEN "startScan" ELSE None
    /\ UNCHANGED history
    /\ UNCHANGED <<cooldown, cdTimer, endTime, storageOK, reads>>

HookImageCapture(imageDataUrl) ==
    /\ Quiescent
    /\ handleImageCapture(imageDataUrl)
    /\ refused' = None
    /\ UNCHANGED history
    /\ UNCHANGED <<cooldown, cdTimer, endTime, storageOK, reads>>

\* refused records the call that returned at the length test
HookMultipleImages(imageDataUrls) ==
    /\ Quiescent
    /\ handleMultipleImages(imageDataUrls)
    /\ refused' = IF Len(imageDataUrls) = 0 THEN "handleMultipleImages"
                  ELSE None
    /\ UNCHANGED history
    /\ UNCHANGED <<cooldown, cdTimer, endTime, storageOK, reads>>

HookAnalyzeNext ==
    /\ Quiescent
    /\ analyzeNext
    /\ refused' = IF cooldown > 0 THEN "analyzeNext" ELSE None
    /\ UNCHANGED history
    /\ UNCHANGED <<cooldown, cdTimer, endTime, storageOK, reads>>

HookRestart ==
    /\ Quiescent
    /\ restart
    /\ refused' = IF cooldown > 0 THEN "restart" ELSE None
    /\ UNCHANGED history
    /\ UNCHANGED <<cooldown, cdTimer, endTime, storageOK, reads>>

HookNext ==
    \/ HookStartScan
    \/ \E imageDataUrl \in Images : HookImageCapture(imageDataUrl)
    \/ \E imageDataUrls \in Batches \cup {<< >>} :
          HookMultipleImages(imageDataUrls)
    \/ HookAnalyzeNext
    \/ HookRestart
    \/ \E s \in Slots : StepTimer(s)
    \/ \E s \in Slots, parsedJson \in Responses : Resolve(s, parsedJson)
    \/ \E s \in Slots : Finalize(s)
    \/ \E s \in Slots, message \in Rejections : Reject(s, message)
    \/ Tick
    \/ Advance

SpecHook == Init /\ [][HookNext]_vars

-----------------------------------------------------------------------------
(* Progress: the page stays loaded, time passes, every timeout that is due
   fires, every file read ends, and every remote call settles *)

\* the remote call of run s resolves or rejects
Settle(s) ==
    \/ \E parsedJson \in Responses : Resolve(s, parsedJson)
    \/ \E message \in Rejections : Reject(s, message)

\* a pending file read ends
ReadEnds == \E i \in 1..MaxReads : FilesRead(i) \/ FilesUnreadable(i)

\* time cannot stand still: however many clicks and callbacks fall into one
\* time unit, the unit ends (strong fairness: a pending file read or a due
\* timeout holds the clock of the model only until its callback has run)
Progress ==
    /\ SF_vars(Advance)
    /\ WF_vars(Tick)
    /\ WF_vars(ReadEnds)
    /\ \A s \in Slots :
         /\ WF_vars(StepTimer(s))
         /\ WF_vars(Settle(s))
         /\ WF_vars(Finalize(s))

\* files are selected at a human pace: the previous selection has been read
\* (a user who piles up selections without end would hold the model's clock)
SelectFilesPaced(files) == reads = << >> /\ SelectFiles(files)

LiveNext ==
    \/ ClickScan
    \/ ClickTryAgain
    \/ ScannerCancel
    \/ \E img \in Images : ScannerCapture(img)
    \/ ResultsRestart
    \/ ResultsAnalyzeNext
    \/ \E files \in Batches : SelectFilesPaced(files)
    \/ \E i \in 1..MaxReads : FilesRead(i)
    \/ \E i \in 1..MaxReads : FilesUnreadable(i)
    \/ \E s \in Slots : StepTimer(s)
    \/ \E s \in Slots, parsedJson \in Responses : Resolve(s, parsedJson)
    \/ \E s \in Slots : Finalize(s)
    \/ \E s \in Slots, message \in Rejections : Reject(s, message)
    \/ Tick
    \/ Advance

\* the page, never reloaded, under the progress assumptions
SpecLive == Init /\ [][LiveNext]_vars /\ Progress

\* the hook's API under the progress assumptions
SpecHookLive == Init /\ [][HookNext]_vars /\ Progress

-----------------------------------------------------------------------------
(* The start of the page, step by step: the first render has every useState
   at its initial value (the counter at 0), and the recovery effect runs
   after that render is committed; a click can come in between *)

\* the page is loaded and rendered for the first time   use-scanner.ts:108-115
Mount ==
    /\ state' = "idle"
    /\ image' = None
    /\ analysisSteps' = StatusesOf(initialAnalysisSteps)
    /\ medicineInfo' = Null
    /\ forensicResult' = Null
    /\ error' = None
    /\ imageQueue' = << >>
    /\ cooldown' = 0
    /\ cdTimer' = NoTimer
    /\ runs' = [s \in Slots |-> FreeRun]
    /\ reads' = << >>
    /\ refused' = None
    /\ recovering' = TRUE
    /\ UNCHANGED <<endTime, storageOK, batch, served, server>>

\* the effect of the first render   use-scanner.ts:118-131
\* (setCooldown with a positive value starts the countdown, 134-140)
RecoveryEffect ==
    /\ recovering
    /\ recovering' = FALSE
    /\ cooldown' = IF Recovered > 0 THEN Recovered ELSE cooldown
    /\ cdTimer' = IF Recovered > 0 THEN 0 ELSE cdTimer
    /\ refused' = None
    /\ UNCHANGED <<hook, runs, endTime, storageOK, reads, batch, served,
                   server>>

\* the effect runs right after the first render: no time unit passes before
AdvanceStart == ~recovering /\ Advance

StartNext ==
    \/ ClickScan
    \/ ClickTryAgain
    \/ ScannerCancel
    \/ \E img \in Images : ScannerCapture(img)
    \/ ResultsRestart
    \/ ResultsAnalyzeNext
    \/ \E files \in Batches : SelectFiles(files)
    \/ \E i \in 1..MaxReads : FilesRead(i)
    \/ \E i \in 1..MaxReads : FilesUnreadable(i)
    \/ \E s \in Slots : StepTimer(s)
    \/ \E s \in Slots, parsedJson \in Responses : Resolve(s, parsedJson)
    \/ \E s \in Slots : Finalize(s)
    \/ \E s \in Slots, message \in Rejections : Reject(s, message)
    \/ Tick
    \/ AdvanceStart
    \/ Mount
    \/ RecoveryEffect

SpecStart == Init /\ [][StartNext]_vars

-----------------------------------------------------------------------------
(* The server: forensicAnalysisFlow called with any response of the model, at
   whatever its clock reads; two calls can fall into the same millisecond *)

FlowCall(parsedJson) ==
    /\ Len(issued) < MaxFlows
    /\ answer' = Some([parsedJson |-> parsedJson, now |-> clock,
                       result |-> flowResult(parsedJson, clock)])
    /\ issued' = Append(issued, flowResult(parsedJson, clock).scanId)
    /\ UNCHANGED <<hook, cooldown, cdTimer, endTime, storageOK, runs, reads,
                   refused, batch, served, recovering, clock>>

FlowClock ==
    /\ clock < MaxClock
    /\ clock' = clock + 1
    /\ UNCHANGED <<hook, cooldown, cdTimer, endTime, storageOK, runs, reads,
                   refused, batch, served, recovering, answer, issued>>

FlowNext ==
    \/ \E parsedJson \in FlowResponses : FlowCall(parsedJson)
    \/ FlowClock

SpecFlow == Init /\ [][FlowNext]_vars

-----------------------------------------------------------------------------
(* Properties *)

\* run s returns in this step: its last timeout fired or its call rejected
Ends(s) == runs[s].pc # "free" /\ runs'[s].pc = "free" /\ ~Reload

\* the remote call of run s resolved with error set and score absent
FatalResponse(s) ==
    /\ runs[s].raw # Null
    /\ Truthy(runs[s].raw[1].error)
    /\ runs[s].raw[1].score = NoScore

\* C1: whenever the cooldown counter is greater than 0, a call of startScan,
\* analyzeNext or restart changes nothing: state, image, queue, steps,
\* medicineInfo, forensicResult, error, the counter, its timeout, the persisted
\* deadline and the running analyses are all as before.
C1_GuardEnforcement ==
    [][refused' # None =>
         UNCHANGED <<hook, cooldown, cdTimer, endTime, runs, reads>>]_vars

\* restart was called from the results screen during the cooldown
C1_Witness ==
    /\ refused = "restart"
    /\ cooldown > 0
    /\ state = "results"
    /\ medicineInfo # Null

\* C2 (as claimed): an upload that completes in idle while the cooldown is
\* greater than 0 leaves the state idle and starts no analysis.
C2_UploadGuarded ==
    [][\A i \in 1..MaxReads :
         (state = "idle" /\ cooldown > 0 /\ FilesRead(i)) =>
             (state' = "idle" /\ runs' = runs)]_vars

\* C3 (as claimed): at most one _runAnalysis is in progress at any time.
C3_SingleFlight == Cardinality(Active) <= 1

\* C4: every step in which an analysis returns (the last timeout fired, or the
\* call rejected) sets state to results and arms the cooldown: the counter is
\* COOLDOWN_SECONDS, a timeout is pending and, if localStorage is granted, the
\* persisted deadline is a full window ahead; and no other step of the page
\* (a reload apart) raises the counter or the deadline, so each analysis arms
\* exactly once.
C4_ArmsExactlyOnce ==
    [][/\ \A s \in Slots :
            Ends(s) =>
              /\ state' = "results"
              /\ cooldown' = COOLDOWN_SECONDS
              /\ cdTimer' # NoTimer
              /\ storageOK => endTime' = Units(COOLDOWN_SECONDS * 1000)
       /\ (~Reload /\ (cooldown' > cooldown \/ endTime' > endTime)) =>
              Cardinality({s \in Slots : Ends(s)}) = 1]_vars

\* a rejected call has just armed the cooldown
C4_Witness ==
    /\ state = "results"
    /\ error = DefaultErrorMessage
    /\ medicineInfo = Null
    /\ cooldown = COOLDOWN_SECONDS
    /\ cdTimer = 0
    /\ endTime = Units(COOLDOWN_SECONDS * 1000)

C6_EndToEnd ==
    [][batch' = <<"A", "B">> =>
         /\ (served' = 1 /\ Active' # {}) =>
               state' = "analyzing" /\ image' = "A" /\ imageQueue' = <<"B">>
         /\ (served' = 1 /\ Active' = {}) =>
               state' = "results" /\ image' = "A" /\ imageQueue' = <<"B">>
         /\ (Active # {} /\ Active' = {}) => cooldown' = COOLDOWN_SECONDS
         /\ (served' = 2 /\ Active' # {}) =>
               state' = "analyzing" /\ image' = "B" /\ imageQueue' = << >>
         /\ (served' = 2 /\ Active' = {}) =>
               state' = "results" /\ image' = "B" /\ imageQueue' = << >>
         /\ served' = 3 => state' = "idle" /\ imageQueue' = << >>
         /\ (served > 0 /\ served' > served) => cooldown = 0]_vars

\* the scenario ran to its end
C6_Witness ==
    /\ batch = <<"A", "B">>
    /\ served = 3
    /\ state = "idle"
    /\ imageQueue = << >>

\* C7 (as claimed): while the remote call of an analysis has not settled, the
\* last displayed step is pending and the state is not results.
C7_Barrier ==
    (\E s \in Slots : runs[s].pc \in {"step0", "call"}) =>
        (analysisSteps[NSteps] = "pending" /\ state # "results")

\* C8 (as claimed): an analysis returns, on the resolved and on the rejected
\* path alike, only from its last step, held for at least that step's
\* duration.
C8_DwellOnEveryPath ==
    [][\A s \in Slots :
         Ends(s) =>
           /\ runs[s].steps[NSteps] = "in-progress"
           /\ runs[s].elapsed >= Duration(NSteps - 1)]_vars

\* C8 (amended): an analysis enters its last step only once its call has
\* resolved; an analysis whose call resolved returns from the last step, held
\* for at least its duration; an analysis whose call rejected returns without
\* having entered the last step.
C8_DwellWhenResolved ==
    [][\A s \in Slots :
         /\ runs'[s].steps[NSteps] # "pending" => runs'[s].raw # Null
         /\ (Ends(s) /\ runs[s].raw # Null) =>
              /\ runs[s].steps[NSteps] = "in-progress"
              /\ runs[s].elapsed >= Duration(NSteps - 1)
         /\ (Ends(s) /\ runs[s].raw = Null) =>
              runs[s].steps[NSteps] = "pending"]_vars

\* a resolved analysis has just returned from its last step
C8_Witness ==
    /\ state = "results"
    /\ analysisSteps = CompleteSteps
    /\ forensicResult # Null
    /\ cooldown = COOLDOWN_SECONDS
    /\ cdTimer = 0
    /\ Active = {}

\* C9 (as claimed): a step before the last goes from in-progress to complete
\* only after it was in-progress for at least its own duration.
C9_IntermediateDwell ==
    [][\A s \in Slots : \A i \in 1..(NSteps - 1) :
         (runs[s].steps[i] = "in-progress" /\ runs'[s].steps[i] = "complete")
            => runs[s].elapsed >= Duration(i - 1)]_vars

\* C10 (as claimed): when an analysis whose response had error set and no
\* score returns, medicineInfo carries only that error, forensicResult is
\* null and the session error is that error.
C10_FatalOutcome ==
    [][\A s \in Slots :
         (Ends(s) /\ FatalResponse(s)) =>
            /\ medicineInfo' = Some([primaryUses |-> None,
                                     error |-> runs[s].raw[1].error])
            /\ forensicResult' = Null
            /\ error' = runs[s].raw[1].error]_vars

\* the remote call of run s resolved with error set and a (non-zero) score
SoftResponse(s) ==
    /\ runs[s].raw # Null
    /\ Truthy(runs[s].raw[1].error)
    /\ TruthyNum(runs[s].raw[1].score)

\* the remote call of run s is answered in this step
Answered(s) == runs[s].pc = "call" /\ runs'[s].pc = "step2"

\* C11 (as claimed): when an analysis whose response had both an error and a
\* score returns, the state is results, forensicResult holds that score,
\* medicineInfo holds the general-info fields, and the session error field
\* holds that error.
C11_SoftWarning ==
    [][\A s \in Slots :
         (Ends(s) /\ SoftResponse(s)) =>
            /\ state' = "results"
            /\ forensicResult' # Null
            /\ forensicResult'[1].score = runs[s].raw[1].score
            /\ medicineInfo' # Null
            /\ medicineInfo'[1].primaryUses = runs[s].raw[1].primaryUses
            /\ error' = runs[s].raw[1].error]_vars

\* C12 (as claimed): a response with error set is classified by the presence
\* of its score alone: with a score, 0 included, the forensic result is kept
\* with that score; the session error is set, and no forensic result, only
\* when the score is absent.
C12_ScorePresenceBoundary ==
    [][\A s \in Slots :
         (Answered(s) /\ Truthy(runs'[s].raw[1].error)) =>
            IF runs'[s].raw[1].score # NoScore
            THEN /\ forensicResult' # Null
                 /\ forensicResult'[1].score = runs'[s].raw[1].score
            ELSE /\ forensicResult' = forensicResult
                 /\ error' = runs'[s].raw[1].error]_vars

\* C13 (as claimed): when the call of an analysis rejects, the state becomes
\* results with the error field set, medicineInfo and forensicResult null and
\* the counter at COOLDOWN_SECONDS; when an analysis whose response had no
\* error returns, the error field is null.
C13_TransportFailure ==
    [][\A s \in Slots :
         /\ (Ends(s) /\ runs[s].pc = "call") =>
               /\ state' = "results"
               /\ Truthy(error')
               /\ medicineInfo' = Null
               /\ forensicResult' = Null
               /\ cooldown' = COOLDOWN_SECONDS
         /\ (Ends(s) /\ runs[s].pc = "step2"
                     /\ ~Truthy(runs[s].raw[1].error)) =>
               error' = None]_vars

\* C14: the counter is never negative, and a timeout of the countdown is
\* pending exactly while the counter is positive (none at 0, until the next
\* arm); an analysis that returns leaves the counter at COOLDOWN_SECONDS; and,
\* a reload apart, the counter changes only by such an arm or by a tick that
\* takes exactly 1 off it after a full second of its timeout.
C14_CooldownMonotonic ==
    /\ [](/\ cooldown >= 0
          /\ cooldown = 0 <=> cdTimer = NoTimer)
    /\ [][/\ \A s \in Slots : Ends(s) => cooldown' = COOLDOWN_SECONDS
          /\ (cooldown' # cooldown /\ ~Reload) =>
                \/ /\ \E s \in Slots : Ends(s)
                   /\ cooldown' = COOLDOWN_SECONDS
                \/ /\ cooldown' = cooldown - 1
                   /\ cdTimer = Units(TICK_MS)]_vars

\* the countdown ran from COOLDOWN_SECONDS down to 0 and stopped
C14_Witness ==
    /\ state = "results"
    /\ cooldown = 0
    /\ cdTimer = NoTimer
    /\ endTime = 0

\* C15: a reload T ms after an arm that persisted its deadline sets the
\* counter to the ceiling of the remaining seconds: at least WINDOW - T and
\* less than one second more, and 0 once the window has passed.
C15_Persistence ==
    [][(Reload /\ endTime # NoEntry) =>
         LET T == COOLDOWN_SECONDS * 1000 - endTime * Unit
         IN  IF T < COOLDOWN_SECONDS * 1000
             THEN /\ cooldown' * 1000 >= COOLDOWN_SECONDS * 1000 - T
                  /\ cooldown' * 1000 < COOLDOWN_SECONDS * 1000 - T + 1000
             ELSE cooldown' = 0]_vars

\* the page was reloaded half a second into a second of the countdown: the
\* recovered counter is the remaining time rounded up
C15_Witness ==
    /\ state = "idle"
    /\ cooldown \in 1..(COOLDOWN_SECONDS - 1)
    /\ cdTimer = 0
    /\ endTime # NoEntry
    /\ endTime * Unit = cooldown * 1000 - Unit

\* C16: with localStorage denied, a reload leaves the counter at 0 with the
\* session in its initial state and no error; an analysis that returns still
\* sets the counter to COOLDOWN_SECONDS with its timeout pending and the state
\* to results, and the error field holds only what the analysis itself gave
\* (the rejection's message, or whatever it held before the last step ended).
C16_StorageFailure ==
    [][~storageOK =>
         /\ Reload =>
              /\ cooldown' = 0 /\ cdTimer' = NoTimer
              /\ state' = "idle" /\ error' = None
         /\ \A s \in Slots :
              Ends(s) =>
                /\ state' = "results"
                /\ cooldown' = COOLDOWN_SECONDS
                /\ cdTimer' # NoTimer
                /\ runs[s].pc = "step2" => error' = error
                /\ runs[s].pc = "call" =>
                      error' \in (Rejections \ {""}) \cup {DefaultErrorMessage}
         /\ endTime' = NoEntry]_vars

\* an analysis returned with localStorage denied: results, counter armed,
\* nothing persisted
C16_Witness ==
    /\ ~storageOK
    /\ state = "results"
    /\ forensicResult # Null
    /\ cooldown = COOLDOWN_SECONDS
    /\ cdTimer = 0
    /\ endTime = NoEntry

\* C17 (as claimed): a call of handleMultipleImages with the empty list does
\* what restart does: with the counter at 0 it leaves the session idle with
\* image, results, error and queue cleared, and with the counter above 0 it
\* changes nothing.
C17_EmptyBatchIsRestart ==
    [][refused' = "handleMultipleImages" =>
         IF cooldown > 0
         THEN UNCHANGED <<hook, cooldown, cdTimer, endTime, runs>>
         ELSE /\ state' = "idle"
              /\ image' = None
              /\ medicineInfo' = Null
              /\ forensicResult' = Null
              /\ error' = None
              /\ imageQueue' = << >>]_vars

\* the payloads of the submitted batch are pairwise different
DistinctPayloads ==
    \A i, j \in 1..Len(batch) : i # j => batch[i] # batch[j]

\* C18 (as claimed): the current image is not a member of the queue, whatever
\* the batch, batches that repeat a payload included.
C18_CurrentNotQueued ==
    \A k \in 1..Len(imageQueue) : imageQueue[k] # image

\* C18 (amended): the entry of the current image has been removed from the
\* queue, which holds exactly the entries submitted after it; so when the
\* payloads of the batch are pairwise different the current image is not a
\* member of the queue.
C18_CurrentEntryRemoved ==
    /\ ~BatchDone => Len(imageQueue) = Len(batch) - served
    /\ DistinctPayloads => \A k \in 1..Len(imageQueue) : imageQueue[k] # image

\* the first image of [A, B] is being analyzed and only B is queued
C18_Witness ==
    /\ batch = <<"A", "B">>
    /\ served = 1
    /\ state = "analyzing"
    /\ image = "A"
    /\ imageQueue = <<"B">>
    /\ Active # {}

\* C19 (as claimed): the state leaves analyzing only in a step in which an
\* analysis returns (its last timeout fired or its call rejected), a reload of
\* the page apart.
C19_NoAbort ==
    [][(state = "analyzing" /\ state' # "analyzing" /\ ~Reload) =>
          \E s \in Slots : Ends(s)]_vars

\* C20: in the displayed analysis steps at most one step is in-progress, and
\* when one is, every step before it is complete and every step after it is
\* pending.
C20_StepSequence ==
    \A i \in 1..NSteps :
        analysisSteps[i] = "in-progress" =>
            /\ \A j \in 1..(i - 1) : analysisSteps[j] = "complete"
            /\ \A j \in (i + 1)..NSteps : analysisSteps[j] = "pending"

\* the second step is displayed in-progress while the call is out
C20_Witness ==
    /\ state = "analyzing"
    /\ analysisSteps = <<"complete", "in-progress", "pending">>
    /\ \E s \in Slots : runs[s].pc = "call"

\* the order of the statuses: pending, in-progress, complete
Rank(status) ==
    IF status = "pending" THEN 0 ELSE IF status = "in-progress" THEN 1 ELSE 2

\* C21 (as claimed): while an analysis is running (it has started and has not
\* yet returned), no displayed step goes back from complete to in-progress or
\* pending, or from in-progress to pending, whatever the user does.
C21_StepsMonotonic ==
    [][(\E s \in Slots : runs[s].pc # "free" /\ runs'[s].pc # "free") =>
          \A i \in 1..NSteps :
              Rank(analysisSteps'[i]) >= Rank(analysisSteps[i])]_vars

\* C22 (as claimed): whenever a deadline is persisted and no countdown
\* timeout is due at this very moment, the counter is the remaining time to
\* the deadline in seconds, rounded up (0 once it has passed).
C22_CounterIsDeadline ==
    (endTime # NoEntry /\ cdTimer # Units(TICK_MS)) =>
        cooldown = CeilDiv(endTime * Unit, 1000)

\* the remote call of run s has been issued
Dispatched(s) == runs[s].pc \in {"call", "step2"}

\* C23 (as claimed): the remote call of an analysis is issued no later than
\* the moment its first step becomes in-progress: no running analysis is
\* without its call.
C23_DispatchAtStart ==
    \A s \in Active : Dispatched(s)

\* C26 (as claimed): a call of handleMultipleImages made while the queue is
\* not empty leaves the queued images in the queue, ahead of the new ones,
\* which follow in input order.
C26_EnqueueAppends ==
    [][\A imageDataUrls \in Batches :
         (HookMultipleImages(imageDataUrls) /\ imageQueue # << >>) =>
             imageQueue' = imageQueue \o imageDataUrls]_vars

\* C30 (as claimed): in every results state with the counter at 0 the page
\* offers restart or analyzeNext.
C30_ResultsNotDeadEnd ==
    (state = "results" /\ cooldown = 0) =>
        (ENABLED ResultsRestart \/ ENABLED ResultsAnalyzeNext)

\* the last call of the flow took the branch that fills in defaults
NonFatalAnswer ==
    /\ answer # Null
    /\ ~(Truthy(answer[1].parsedJson.error)
           /\ ~TruthyNum(answer[1].parsedJson.score))

\* the fields of the hook's view of the flow agree with the full result
FlowAgrees ==
    answer # Null =>
      LET in == answer[1].parsedJson
          out == answer[1].result
          seen == forensicAnalysisFlow([error |-> in.error, score |-> in.score,
                                        primaryUses |-> in.primaryUses])
      IN  /\ seen.score = out.score
          /\ seen.error = out.error
          /\ seen.primaryUses = out.primaryUses

\* C27 (as claimed): on the non-fatal branch an absent score becomes 0, an
\* absent verdict Inconclusive, an absent imprint 'Not detected', absent
\* sources and detailed the empty sequence, each absent sub-result of
\* coreResults {match: false, status: omission, reason: 'AI response missing
\* data.'}, and every field the response carries is returned as it came
\* (timestamp and scanId, which the flow always writes itself, set aside).
C27_Defaults ==
    NonFatalAnswer =>
      LET in == answer[1].parsedJson
          out == answer[1].result
      IN  /\ out.score = IF in.score = NoScore THEN 0 ELSE in.score
          /\ out.verdict = IF in.verdict = None THEN "Inconclusive"
                           ELSE in.verdict
          /\ out.imprint = IF in.imprint = None THEN "Not detected"
                           ELSE in.imprint
          /\ out.sources = Coalesce(in.sources, << >>)
          /\ out.detailed = Coalesce(in.detailed, << >>)
          /\ \A key \in {"imprint", "color", "shape", "generic", "source"} :
               IF CorePart(in, key) = Null
               THEN /\ out.coreResults[key].match = FALSE
                    /\ out.coreResults[key].status = "omission"
                    /\ out.coreResults[key].reason = "AI response missing data."
               ELSE out.coreResults[key] = CorePart(in, key)[1]
          /\ out.error = in.error
          /\ out.primaryUses = in.primaryUses

\* C27 (amended): as claimed, except that the fallback of the source
\* sub-result is {match: false, reason: 'AI response missing data.'} with no
\* status, that the other four fallbacks also carry evidence_quote '', and
\* that timestamp and scanId are never passed through.
C27_DefaultsButSource ==
    NonFatalAnswer =>
      LET in == answer[1].parsedJson
          out == answer[1].result
      IN  /\ out.score = IF in.score = NoScore THEN 0 ELSE in.score
          /\ out.verdict = IF in.verdict = None THEN "Inconclusive"
                           ELSE in.verdict
          /\ out.imprint = IF in.imprint = None THEN "Not detected"
                           ELSE in.imprint
          /\ out.sources = Coalesce(in.sources, << >>)
          /\ out.detailed = Coalesce(in.detailed, << >>)
          /\ \A key \in {"imprint", "color", "shape", "generic"} :
               out.coreResults[key] =
                 IF CorePart(in, key) = Null
                 THEN [match |-> FALSE, status |-> "omission",
                       reason |-> "AI response missing data.",
                       evidence_quote |-> ""]
                 ELSE CorePart(in, key)[1]
          /\ out.coreResults.source =
                 IF CorePart(in, "source") = Null
                 THEN [match |-> FALSE, status |-> None,
                       reason |-> "AI response missing data.",
                       evidence_quote |-> None]
                 ELSE CorePart(in, "source")[1]
          /\ out.error = in.error
          /\ out.primaryUses = in.primaryUses
          /\ out.timestamp # in.timestamp
          /\ out.scanId # in.scanId

\* a response with nothing but general information was filled in with every
\* default
C27_Witness ==
    /\ NonFatalAnswer
    /\ answer[1].parsedJson.score = NoScore
    /\ answer[1].parsedJson.coreResults = Null
    /\ answer[1].parsedJson.sources = Null
    /\ answer[1].result.score = 0
    /\ answer[1].result.verdict = "Inconclusive"
    /\ answer[1].result.coreResults.source.reason = "AI response missing data."

\* C28 (as claimed): timestamp and scanId of every result come from the
\* clock, not from the response, and no two calls of the flow return the same
\* scanId.
C28_FreshIds ==
    /\ answer # Null =>
         /\ answer[1].result.timestamp = Fresh(answer[1].now)
         /\ answer[1].result.scanId = Fresh(answer[1].now)
    /\ \A i, j \in 1..Len(issued) : i # j => issued[i] # issued[j]

\* a call of startScan, analyzeNext or restart that passed the guard
Accepted ==
    /\ ClickScan \/ ClickTryAgain \/ ScannerCancel \/ ResultsRestart
         \/ ResultsAnalyzeNext
    /\ refused' = None

\* C29 (as claimed): from the start of the page on, also before the recovery
\* effect has run, no call of startScan, analyzeNext or restart is accepted
\* while the persisted deadline lies in the future.
C29_GuardFromStart == [][Accepted => endTime \in {NoEntry, 0}]_vars

\* C24: every analysis whose remote call settles ends, and the session is in
\* results when it has ended, whatever the outcome: no end of an analysis
\* leaves the session in analyzing or takes it to idle.
C24_ReachesResults ==
    /\ \A s \in Slots :
         runs[s].pc # "free" ~> (runs[s].pc = "free" /\ state = "results")
    /\ [][\A s \in Slots : Ends(s) => state' = "results"]_vars

\* an analysis whose call rejected has ended in results
C24_Witness ==
    /\ state = "results"
    /\ error = "net"
    /\ Active = {}
    /\ cooldown = COOLDOWN_SECONDS

\* C25: unless analyses keep being run, the counter reaches 0 and stays
\* there, and at 0 startScan, analyzeNext and restart are accepted.
C25_CooldownEnds ==
    /\ []<>(Active # {}) \/ <>[](cooldown = 0)
    /\ [][cooldown = 0 =>
            /\ HookStartScan => state' = "scanning" /\ refused' = None
            /\ HookRestart => state' = "idle" /\ refused' = None
            /\ HookAnalyzeNext =>
                 /\ refused' = None
                 /\ state' = IF imageQueue = << >> THEN "idle"
                             ELSE "analyzing"]_vars

\* the counter has run from an arm down to 0 and a scan was accepted
C25_Witness ==
    /\ cooldown = 0
    /\ cdTimer = NoTimer
    /\ endTime = 0
    /\ state = "scanning"

\* C31 (as claimed): whenever the session is idle, the queue is empty and the
\* current image, medicineInfo, forensicResult and error are all absent, also
\* while an analysis is still completing.
C31_IdleIsCleared ==
    state = "idle" =>
      /\ imageQueue = << >>
      /\ image = None
      /\ medicineInfo = Null
      /\ forensicResult = Null
      /\ error = None

\* what the analysis of run s leaves in medicineInfo, forensicResult and
\* error when it ends: the classification of its response, or the message of
\* the catch block when its call rejected
OutcomeOf(s, info, result, err) ==
    IF runs[s].raw = Null
    THEN info = Null /\ result = Null /\ Truthy(err)
    ELSE LET unifiedResult == forensicAnalysisFlow(runs[s].raw[1])
         IN  IF Truthy(unifiedResult.error) /\ ~TruthyNum(unifiedResult.score)
             THEN /\ info = Some([primaryUses |-> None,
                                  error |-> unifiedResult.error])
                  /\ result = Null
                  /\ err = unifiedResult.error
             ELSE /\ info = Some([primaryUses |-> unifiedResult.primaryUses,
                                  error |-> unifiedResult.error])
                  /\ result = Some(unifiedResult)
                  /\ err = None

\* C32 (as claimed): whenever the session is in results the current image is
\* present, and when an analysis ends the image shown is the one it analysed
\* and medicineInfo, forensicResult and error are its outcome; a resolution
\* that comes after the user has left the session writes nothing.
C32_ResultsBelong ==
    /\ [](state = "results" => image # None)
    /\ [][\A s \in Slots :
            Ends(s) => /\ image' = runs[s].img
                       /\ OutcomeOf(s, medicineInfo', forensicResult', error')
         ]_vars

====
